---- MODULE Spec2Model ----
(***************************************************************************)
(* Model of src/minesweeper.py: the Sentence class and the MinesweeperAI   *)
(* knowledge base (add_knowledge, make_safe_move, make_random_move).       *)
(* A cell is a pair <<row, col>>; a sentence is a record [cells, count];   *)
(* the knowledge base is the record [moves_made, safes, mines, knowledge]. *)
(***************************************************************************)
EXTENDS Integers, Sequences, FiniteSets, TLC

VARIABLES
    board,       \* Minesweeper.mines: the true mine set of the fixed board
    moves_made,  \* MinesweeperAI.moves_made
    safes,       \* MinesweeperAI.safes
    mines,       \* MinesweeperAI.mines
    knowledge,   \* MinesweeperAI.knowledge, a list of sentences
    call,        \* the last call made by the driver, with what it returned
    pre,         \* the knowledge base (for a Sentence call, the sentence) as
                 \* it was when the last call started
    hashSeed,    \* fixes the iteration order of Python sets for the run
    ncalls,      \* number of mutating calls made so far
    sen,         \* a free-standing Sentence object
    honest       \* the marks applied to sen so far were true of the board

vars == <<board, moves_made, safes, mines, knowledge, call, pre, hashSeed,
          ncalls, sen, honest>>

----------------------------------------------------------------------------
(* Bounds of the model *)

Height == 2
Width == 3
MaxCalls == 4
MaxMines == 2
MaxAnyCalls == 3
MaxRandomCalls == 2

----------------------------------------------------------------------------
(* Values *)

Rows == 0 .. (Height - 1)
Cols == 0 .. (Width - 1)
Cells == Rows \X Cols

\* a coordinate outside the board, next to its first row
OffBoard == <<-1, 0>>
Universe == Cells \cup {OffBoard}

\* the in-bounds neighbours of a cell
InBounds(cell) ==
    { n \in ((cell[1] - 1) .. (cell[1] + 1)) \X ((cell[2] - 1) .. (cell[2] + 1)) :
        n # cell /\ n \in Cells }

\* the counts a caller may pass: from one below 0 up to one above the
\* number of neighbours of the first corner
CountArgs == -1 .. (Cardinality(InBounds(<<0, 0>>)) + 1)

\* Python's None and a returned value
None == [none |-> TRUE, val |-> <<>>]
Some(v) == [none |-> FALSE, val |-> v]

\* the value iterated by "for x in r", where iterating None raises the
\* TypeError that the caller catches and ignores
IterOf(r) == IF r.none THEN {} ELSE r.val

KB == [moves_made |-> moves_made, safes |-> safes, mines |-> mines,
       knowledge |-> knowledge]

----------------------------------------------------------------------------
(* class Minesweeper *)

Adjacent(cell) ==
    { n \in ((cell[1] - 1) .. (cell[1] + 1)) \X ((cell[2] - 1) .. (cell[2] + 1)) :
        n # cell }

nearby_mines(b, cell) ==
    Cardinality({ n \in Adjacent(cell) :
                    /\ 0 <= n[1] /\ n[1] < Height
                    /\ 0 <= n[2] /\ n[2] < Width
                    /\ n \in b })

----------------------------------------------------------------------------
(* class Sentence *)

Sentence(cells, count) == [cells |-> cells, count |-> count]

\* mutant: the length test is forgotten
known_mines_no_length(s) ==
    IF s.count = 0 THEN None ELSE Some(s.cells)

\* mutant: the body of known_safes, so a full sentence reports nothing
known_mines_as_safes(s) ==
    IF Cardinality(s.cells) = s.count THEN None
    ELSE IF s.count = 0 THEN Some(s.cells)
    ELSE None

known_mines(s) ==
    IF s.count = 0 THEN None
    ELSE IF Cardinality(s.cells) = s.count THEN Some(s.cells)
    ELSE None

\* mutant: the two tests are swapped, as in known_mines
known_safes_swapped(s) ==
    IF s.count = 0 THEN None
    ELSE IF Cardinality(s.cells) = s.count THEN Some(s.cells)
    ELSE None

known_safes(s) ==
    IF Cardinality(s.cells) = s.count THEN None
    ELSE IF s.count = 0 THEN Some(s.cells)
    ELSE None

\* mutant: the cell is removed but the count is kept
Sentence_mark_mine_keeps_count(s, cell) ==
    [cells |-> s.cells \ {cell}, count |-> s.count]

Sentence_mark_mine(s, cell) ==
    IF cell \in s.cells
    THEN [cells |-> s.cells \ {cell}, count |-> s.count - 1]
    ELSE s

Sentence_mark_safe(s, cell) ==
    [cells |-> s.cells \ {cell}, count |-> s.count]

----------------------------------------------------------------------------
(* class MinesweeperAI *)

\* "for sentence in self.knowledge: sentence.mark_mine(cell)"
AI_mark_mine(st, cell) ==
    [st EXCEPT !.mines = @ \cup {cell},
               !.knowledge = [i \in 1 .. Len(@) |-> Sentence_mark_mine(@[i], cell)]]

\* mutant: a cell marked safe is taken back out of mines
AI_mark_safe_revises(st, cell) ==
    [st EXCEPT !.safes = @ \cup {cell},
               !.mines = @ \ {cell},
               !.knowledge = [i \in 1 .. Len(@) |-> Sentence_mark_safe(@[i], cell)]]

AI_mark_safe(st, cell) ==
    [st EXCEPT !.safes = @ \cup {cell},
               !.knowledge = [i \in 1 .. Len(@) |-> Sentence_mark_safe(@[i], cell)]]

\* mutant: the count is not reduced by the neighbours known to be mines
check_neighbors_no_decrement(st, cell, count) ==
    LET inb == { n \in Adjacent(cell) : n[1] \in Rows /\ n[2] \in Cols }
    IN  [cells |-> { n \in inb : n \notin st.safes /\ n \notin st.mines },
         count |-> count]

\* mutant: the neighbours known to be safe are kept in the cell set
check_neighbors_keeps_safes(st, cell, count) ==
    LET inb == { n \in Adjacent(cell) : n[1] \in Rows /\ n[2] \in Cols }
    IN  [cells |-> { n \in inb : n \notin st.mines },
         count |-> count - Cardinality({ n \in inb : n \in st.mines })]

check_neighbors(st, cell, count) ==
    LET inb == { n \in Adjacent(cell) : n[1] \in Rows /\ n[2] \in Cols }
    IN  [cells |-> { n \in inb : n \notin st.safes /\ n \notin st.mines },
         count |-> count - Cardinality({ n \in inb : n \in st.mines })]

\* mutant: the known mines are not taken out of the sentence
MarkMines_skipped(s, ms) == s

\* "for mine in self.mines: sen.mark_mine(mine)"
RECURSIVE MarkMines(_, _)
MarkMines(s, ms) ==
    IF ms = {} THEN s
    ELSE LET m == CHOOSE x \in ms : TRUE
         IN  MarkMines(Sentence_mark_mine(s, m), ms \ {m})

\* one iteration of the propagation loop, on self.knowledge[i]
SweepOne(st, i, cell) ==
    LET s1 == Sentence_mark_safe(st.knowledge[i], cell)
        mines1 == st.mines \cup IterOf(known_mines(s1))
        safes1 == st.safes \cup IterOf(known_safes(s1))
        s2 == MarkMines(s1, mines1)
    IN  [st EXCEPT !.mines = mines1, !.safes = safes1, !.knowledge[i] = s2]

\* "for i in range(len(self.knowledge))", from index i on
RECURSIVE Sweep(_, _, _)
Sweep(st, i, cell) ==
    IF i > Len(st.knowledge) THEN st
    ELSE Sweep(SweepOne(st, i, cell), i + 1, cell)

DelAt(seq, i) == SubSeq(seq, 1, i - 1) \o SubSeq(seq, i + 1, Len(seq))

\* The purge loop: it deletes the first sentence with count 0 or with as
\* many cells as its count, and stops there ("break").  For a sentence with
\* count 0 its cells go to safes; otherwise the cell passed to
\* add_knowledge goes to mines.  The third test, "not bool(vars(sen))", is
\* never true: vars(sen) always holds the two fields.
Purge(st, cell) ==
    LET hits == { i \in 1 .. Len(st.knowledge) :
                    \/ st.knowledge[i].count = 0
                    \/ Cardinality(st.knowledge[i].cells) = st.knowledge[i].count }
    IN  IF hits = {} THEN st
        ELSE LET i == CHOOSE h \in hits : \A g \in hits : h <= g
                 s == st.knowledge[i]
             IN  IF s.count = 0
                 THEN [st EXCEPT !.safes = @ \cup s.cells,
                                 !.knowledge = DelAt(@, i)]
                 ELSE [st EXCEPT !.mines = @ \cup {cell},
                                 !.knowledge = DelAt(@, i)]

InKnowledge(kn, s) == \E i \in 1 .. Len(kn) : kn[i] = s

\* the body of "for sen2 in KBcopy" for one sen2, appending to kn
Resolve(kn, sen1, sen2) ==
    LET new == IF sen1.cells \subseteq sen2.cells
               THEN Sentence(sen2.cells \ sen1.cells, sen2.count - sen1.count)
               ELSE Sentence(sen1.cells \ sen2.cells, sen1.count - sen2.count)
    IN  IF /\ (sen1.cells \subseteq sen2.cells \/ sen2.cells \subseteq sen1.cells)
           /\ new.cells # {}
           /\ ~InKnowledge(kn, new)
        THEN Append(kn, new)
        ELSE kn

\* "for sen2 in KBcopy", sen1 = copy[j] just popped, sen2 = copy[k], k < j
RECURSIVE Inner(_, _, _, _)
Inner(kn, copy, j, k) ==
    IF k >= j THEN kn
    ELSE Inner(Resolve(kn, copy[j], copy[k]), copy, j, k + 1)

\* "while len(KBcopy) > 0: sen1 = KBcopy.pop()", with j sentences left
RECURSIVE Outer(_, _, _)
Outer(kn, copy, j) ==
    IF j = 0 THEN kn
    ELSE IF Cardinality(copy[j].cells) = 0 \/ copy[j].count = 0
         THEN Outer(kn, copy, j - 1)
         ELSE Outer(Inner(kn, copy, j, 1), copy, j - 1)

SubsetLoop(st) ==
    [st EXCEPT !.knowledge = Outer(@, st.knowledge, Len(st.knowledge))]

\* the knowledge base after steps 1 to 3: the move is recorded, the cell
\* marked safe and the sentence of the cell appended
AfterAppend(st, cell, count) ==
    LET st1 == AI_mark_safe([st EXCEPT !.moves_made = @ \cup {cell}], cell)
        nr == check_neighbors(st1, cell, count)
    IN  IF Cardinality(nr.cells) # 0
        THEN [st1 EXCEPT !.knowledge = Append(@, Sentence(nr.cells, nr.count))]
        ELSE st1

AfterSweep(st, cell, count) == Sweep(AfterAppend(st, cell, count), 1, cell)

AfterPurge(st, cell, count) == Purge(AfterSweep(st, cell, count), cell)

add_knowledge(st, cell, count) == SubsetLoop(AfterPurge(st, cell, count))

\* Iteration order of a Python set: arbitrary, but the same every time the
\* same set is iterated.  Modelled as row-major order started at hashSeed,
\* so that every element of a set comes first under some seed.
Rank(cell, seed) ==
    LET r == IF cell \in Cells THEN cell[1] * Width + cell[2] ELSE Height * Width
        n == Height * Width + 1
    IN  (r + n - seed) % n

FirstOf(S, seed) == CHOOSE c \in S : \A d \in S : Rank(c, seed) <= Rank(d, seed)

\* mutant: the statements with count 0 are not consulted
make_safe_move_safes_only(st, seed) ==
    IF st.safes \ st.moves_made # {}
    THEN Some(FirstOf(st.safes \ st.moves_made, seed))
    ELSE None

make_safe_move(st, seed) ==
    LET cand == st.safes \ st.moves_made
        zero == { i \in 1 .. Len(st.knowledge) :
                    /\ st.knowledge[i].count = 0
                    /\ st.knowledge[i].cells \ st.moves_made # {} }
    IN  IF cand # {} THEN Some(FirstOf(cand, seed))
        ELSE IF zero # {}
             THEN LET i == CHOOSE h \in zero : \A g \in zero : h <= g
                  IN  Some(FirstOf(st.knowledge[i].cells \ st.moves_made, seed))
             ELSE None

\* i and j are the two values random.randint returned
make_random_move(st, i, j) ==
    IF <<i, j>> \notin st.moves_made /\ <<i, j>> \notin st.mines
    THEN Some(<<i, j>>)
    ELSE None

----------------------------------------------------------------------------
(* The driver *)

Empty == [moves_made |-> {}, safes |-> {}, mines |-> {}, knowledge |-> <<>>]

Boards == { b \in SUBSET Cells : Cardinality(b) <= MaxMines }

Returned(op, cell, count, result) ==
    [op |-> op, cell |-> cell, count |-> count, result |-> result,
     outcome |-> "returned"]

SetKB(st) ==
    /\ moves_made' = st.moves_made
    /\ safes' = st.safes
    /\ mines' = st.mines
    /\ knowledge' = st.knowledge

Init ==
    /\ board \in Boards
    /\ moves_made = {} /\ safes = {} /\ mines = {} /\ knowledge = <<>>
    /\ call = Returned("init", <<>>, 0, None)
    /\ pre = Empty
    /\ hashSeed \in 0 .. (Height * Width - 1)
    /\ ncalls = 0
    /\ sen = Sentence({}, 0)
    /\ honest = TRUE

\* the driver reveals a cell that is not a mine and reports its true count
Observe ==
    \E cell \in Cells \ board :
        /\ ncalls < MaxCalls
        /\ SetKB(add_knowledge(KB, cell, nearby_mines(board, cell)))
        /\ call' = Returned("add_knowledge", cell, nearby_mines(board, cell), None)
        /\ pre' = KB
        /\ ncalls' = ncalls + 1
        /\ UNCHANGED <<board, hashSeed, sen, honest>>

\* mutant: the cell chosen is recorded as a move made
SafeMove_records_move ==
    /\ call' = Returned("make_safe_move", <<>>, 0, make_safe_move(KB, hashSeed))
    /\ pre' = KB
    /\ moves_made' = moves_made \cup IterOf(
            IF make_safe_move(KB, hashSeed).none THEN None
            ELSE Some({make_safe_move(KB, hashSeed).val}))
    /\ UNCHANGED <<board, safes, mines, knowledge, hashSeed, ncalls, sen, honest>>

SafeMove ==
    /\ call' = Returned("make_safe_move", <<>>, 0, make_safe_move(KB, hashSeed))
    /\ pre' = KB
    /\ UNCHANGED <<board, moves_made, safes, mines, knowledge, hashSeed,
                   ncalls, sen, honest>>

RandomMove ==
    \E i \in Rows, j \in Cols :
        /\ call' = Returned("make_random_move", <<>>, 0, make_random_move(KB, i, j))
        /\ pre' = KB
        /\ UNCHANGED <<board, moves_made, safes, mines, knowledge, hashSeed,
                       ncalls, sen, honest>>

Next == Observe \/ SafeMove \/ RandomMove

Spec == Init /\ [][Next]_vars

----------------------------------------------------------------------------
(* A driver that calls the public methods with any arguments *)

InitAny ==
    /\ board = {}
    /\ moves_made = {} /\ safes = {} /\ mines = {} /\ knowledge = <<>>
    /\ call = Returned("init", <<>>, 0, None)
    /\ pre = Empty
    /\ hashSeed = 0
    /\ ncalls = 0
    /\ sen = Sentence({}, 0)
    /\ honest = TRUE

ObserveAny ==
    \E cell \in Universe, count \in CountArgs :
        /\ ncalls < MaxAnyCalls
        /\ SetKB(add_knowledge(KB, cell, count))
        /\ call' = Returned("add_knowledge", cell, count, None)
        /\ pre' = KB
        /\ ncalls' = ncalls + 1
        /\ UNCHANGED <<board, hashSeed, sen, honest>>

MarkMine ==
    \E cell \in Universe :
        /\ ncalls < MaxAnyCalls
        /\ SetKB(AI_mark_mine(KB, cell))
        /\ call' = Returned("mark_mine", cell, 0, None)
        /\ pre' = KB
        /\ ncalls' = ncalls + 1
        /\ UNCHANGED <<board, hashSeed, sen, honest>>

MarkSafe ==
    \E cell \in Universe :
        /\ ncalls < MaxAnyCalls
        /\ SetKB(AI_mark_safe(KB, cell))
        /\ call' = Returned("mark_safe", cell, 0, None)
        /\ pre' = KB
        /\ ncalls' = ncalls + 1
        /\ UNCHANGED <<board, hashSeed, sen, honest>>

NextAny == ObserveAny \/ MarkMine \/ MarkSafe \/ SafeMove \/ RandomMove

SpecAny == InitAny /\ [][NextAny]_vars

----------------------------------------------------------------------------
(* Claims about the sound driver, checked under Spec *)

\* C1: with a driver that reveals only non-mine cells and reports true
\* counts, a cell returned by make_safe_move is never a mine of the board
\* and never a move already made.
C1_SafeMoveIsSafe ==
    (call.op = "make_safe_move" /\ ~call.result.none)
        => (call.result.val \notin board /\ call.result.val \notin moves_made)

\* make_safe_move returned a cell on a board that has mines, some of them
\* already inferred
C1_Witness ==
    /\ call.op = "make_safe_move"
    /\ ~call.result.none
    /\ mines # {}
    /\ moves_made # {}

\* C2: with the sound driver, safes and mines are disjoint in every state.
C2_SafesMinesDisjoint == safes \cap mines = {}

\* add_knowledge has inferred both a mine and a safe cell not yet revealed
C2_Witness ==
    /\ call.op = "add_knowledge"
    /\ mines # {}
    /\ safes \ moves_made # {}

\* C3: with the sound driver, every cell in mines is a mine of the board and
\* no cell in safes is.
C3_InferenceSound == mines \subseteq board /\ safes \cap board = {}

\* add_knowledge has inferred a mine and the board has a mine not yet inferred
C3_Witness ==
    /\ call.op = "add_knowledge"
    /\ mines # {}
    /\ board \ mines # {}
    /\ safes \ moves_made # {}

\* the cells make_random_move may return: not yet chosen, not known mines
FreeCells == Cells \ (moves_made \cup mines)

\* C7: make_random_move returns a cell outside moves_made and mines whenever
\* the board has one, and reports None only when it has none.
C7_RandomMoveFindsFreeCell ==
    call.op = "make_random_move" =>
        /\ FreeCells # {} => (~call.result.none /\ call.result.val \in FreeCells)
        /\ call.result.none => FreeCells = {}

\* the cells outside moves_made of the statements with count 0
ZeroCells ==
    UNION { knowledge[i].cells \ moves_made :
              i \in { k \in 1 .. Len(knowledge) : knowledge[k].count = 0 } }

\* C8: make_safe_move returns a cell of safes minus moves_made when there is
\* one, otherwise a cell outside moves_made of a statement with count 0 when
\* there is one, and None exactly when there is neither.
C8_SafeMoveOrder ==
    call.op = "make_safe_move" =>
        /\ safes \ moves_made # {}
             => (~call.result.none /\ call.result.val \in safes \ moves_made)
        /\ (safes \ moves_made = {} /\ ZeroCells # {})
             => (~call.result.none /\ call.result.val \in ZeroCells)
        /\ call.result.none <=> (safes \ moves_made = {} /\ ZeroCells = {})

\* make_safe_move took its cell from a statement with count 0, no cell of
\* safes being left
C8_Witness ==
    /\ call.op = "make_safe_move"
    /\ ~call.result.none
    /\ safes \ moves_made = {}
    /\ call.result.val \in ZeroCells

\* C9: make_safe_move leaves moves_made, safes, mines and the statements
\* as they were, and a second call right after it returns the same result.
C9_SafeMoveReadOnly ==
    call.op = "make_safe_move" =>
        /\ KB = pre
        /\ make_safe_move(KB, hashSeed) = call.result

\* make_safe_move returned a cell while other cells were candidates too
C9_Witness ==
    /\ call.op = "make_safe_move"
    /\ ~call.result.none
    /\ Cardinality(safes \ moves_made) > 1

----------------------------------------------------------------------------
(* Claims about calls with any arguments, checked under SpecAny *)

\* the observation the specification calls invalid: a cell outside the
\* board, or a count outside 0 .. number of in-bounds neighbours
InvalidObservation(cell, count) ==
    \/ cell \notin Cells
    \/ count < 0
    \/ count > Cardinality(InBounds(cell))

\* C4: add_knowledge with an invalid observation is rejected with an
\* InvalidObservation outcome and leaves the knowledge base as it was.
C4_InvalidRejected ==
    (call.op = "add_knowledge" /\ InvalidObservation(call.cell, call.count))
        => (call.outcome = "InvalidObservation" /\ KB = pre)

\* the set of statements of a knowledge list, ignoring order and multiplicity
StmtSet(kn) == { kn[i] : i \in 1 .. Len(kn) }

\* C5: add_knowledge called a second time in a row with the same arguments
\* leaves safes, mines and the set of statements as the first call left them.
C5_ObserveIdempotent ==
    [][(/\ call.op = "add_knowledge"
        /\ call'.op = "add_knowledge"
        /\ call'.cell = call.cell
        /\ call'.count = call.count)
          => (/\ safes' = safes
              /\ mines' = mines
              /\ StmtSet(knowledge') = StmtSet(knowledge))]_vars

\* the statements at the start of the subset loop of the last add_knowledge
AtSubsetStart == AfterPurge(pre, call.cell, call.count).knowledge

\* C6: for statements A, B at the start of the subset loop with A.cells a
\* strict subset of B.cells, when add_knowledge returns the statement
\* (B.cells - A.cells, B.count - A.count) is in the knowledge base, or every
\* cell of B.cells - A.cells is in safes or mines.
C6_SubsetLaw ==
    call.op = "add_knowledge" =>
        \A i, j \in 1 .. Len(AtSubsetStart) :
            LET A == AtSubsetStart[i]
                B == AtSubsetStart[j]
            IN  (A.cells \subseteq B.cells /\ A.cells # B.cells)
                    => \/ InKnowledge(knowledge,
                                      Sentence(B.cells \ A.cells, B.count - A.count))
                       \/ (B.cells \ A.cells) \subseteq (safes \cup mines)

----------------------------------------------------------------------------
(* A single Sentence under mark_mine and mark_safe *)

\* the sentence says the truth about the board
TrueOf(s, b) == s.count = Cardinality(s.cells \cap b)

InitSentence ==
    /\ board \in Boards
    /\ moves_made = {} /\ safes = {} /\ mines = {} /\ knowledge = <<>>
    /\ call = Returned("init", <<>>, 0, None)
    /\ pre = Empty
    /\ hashSeed = 0
    /\ ncalls = 0
    /\ \E cs \in SUBSET Cells : \E n \in 0 .. Cardinality(cs) : sen = Sentence(cs, n)
    /\ honest = TrueOf(sen, board)

SenMarkMine ==
    \E cell \in Universe :
        /\ sen' = Sentence_mark_mine(sen, cell)
        /\ honest' = (honest /\ cell \in board)
        /\ call' = Returned("Sentence.mark_mine", cell, 0, None)
        /\ pre' = sen
        /\ UNCHANGED <<board, moves_made, safes, mines, knowledge,
                       hashSeed, ncalls>>

SenMarkSafe ==
    \E cell \in Universe :
        /\ sen' = Sentence_mark_safe(sen, cell)
        /\ honest' = (honest /\ cell \notin board)
        /\ call' = Returned("Sentence.mark_safe", cell, 0, None)
        /\ pre' = sen
        /\ UNCHANGED <<board, moves_made, safes, mines, knowledge,
                       hashSeed, ncalls>>

NextSentence == SenMarkMine \/ SenMarkSafe

SpecSentence == InitSentence /\ [][NextSentence]_vars

InRange(s) == 0 <= s.count /\ s.count <= Cardinality(s.cells)

\* C10 as stated: a Sentence with 0 <= count <= |cells| keeps that range
\* under any sequence of mark_mine and mark_safe calls with any cells.
C10_AnyMarksKeepRange == InRange(sen)

\* C10 amended: a Sentence that is true of the board keeps 0 <= count <=
\* |cells| under mark_mine calls on mines and mark_safe calls on non-mines.
C10_TruthfulMarksKeepRange == honest => InRange(sen)

\* a true sentence has lost a mine to mark_mine and still has cells
C10_Witness ==
    /\ honest
    /\ call.op = "Sentence.mark_mine"
    /\ call.cell \in pre.cells
    /\ sen.cells # {}
    /\ sen.count > 0

----------------------------------------------------------------------------
(* Further claims about add_knowledge and the moves *)

\* C11: across add_knowledge, mark_safe, mark_mine, make_safe_move and
\* make_random_move calls the sets moves_made, safes and mines only grow.
C11_SetsOnlyGrow ==
    [][/\ moves_made \subseteq moves_made'
       /\ safes \subseteq safes'
       /\ mines \subseteq mines']_vars

\* a call was made on a cell that the other set already held, and both
\* sets still hold it
C11_Witness ==
    /\ call.op \in {"add_knowledge", "mark_safe", "mark_mine"}
    /\ call.cell \in pre.safes \cup pre.mines
    /\ call.cell \in safes \cap mines

\* the in-bounds neighbours of the cell of the last call that were in
\* neither safes nor mines when the call started, and those in mines
UnknownBefore == { n \in InBounds(call.cell) : n \notin pre.safes \cup pre.mines }
MinesBefore == { n \in InBounds(call.cell) : n \in pre.mines }

\* C12: when add_knowledge is called with n > 0 unknown in-bounds neighbours
\* and the count less the neighbours already in mines equals n, all n of
\* them are in mines when the call returns.
C12_FullNeighbourhoodIsMines ==
    (/\ call.op = "add_knowledge"
     /\ UnknownBefore # {}
     /\ call.count - Cardinality(MinesBefore) = Cardinality(UnknownBefore))
        => UnknownBefore \subseteq mines

\* such a call was made with a neighbour already in mines and two unknown
C12_Witness ==
    /\ call.op = "add_knowledge"
    /\ MinesBefore # {}
    /\ Cardinality(UnknownBefore) > 1
    /\ call.count - Cardinality(MinesBefore) = Cardinality(UnknownBefore)
    /\ UnknownBefore \subseteq mines

----------------------------------------------------------------------------
(* make_random_move, one iteration of its "while True" loop at a time *)

\* mutant: a cell that is taken makes the loop draw again
RandomLoopBody_retries(st, i, j) ==
    [done |-> ~make_random_move(st, i, j).none,
     result |-> make_random_move(st, i, j)]

\* one pass through the loop body with i, j drawn: both branches return
RandomLoopBody(st, i, j) ==
    [done |-> TRUE, result |-> make_random_move(st, i, j)]

RandomBegin ==
    /\ call.outcome = "returned"
    /\ call' = [op |-> "make_random_move", cell |-> <<>>, count |-> 0,
                result |-> None, outcome |-> "running"]
    /\ pre' = KB
    /\ UNCHANGED <<board, moves_made, safes, mines, knowledge, hashSeed,
                   ncalls, sen, honest>>

RandomIter ==
    /\ call.op = "make_random_move"
    /\ call.outcome = "running"
    /\ \E i \in Rows, j \in Cols :
          call' = IF RandomLoopBody(KB, i, j).done
                  THEN Returned("make_random_move", <<>>, 0,
                                RandomLoopBody(KB, i, j).result)
                  ELSE call
    /\ UNCHANGED <<board, moves_made, safes, mines, knowledge, pre, hashSeed,
                   ncalls, sen, honest>>

Mutators ==
    /\ call.outcome = "returned"
    /\ ncalls < MaxRandomCalls
    /\ (ObserveAny \/ MarkMine \/ MarkSafe)

NextRandom == Mutators \/ RandomBegin \/ RandomIter

\* the code is single-threaded: a call that was started runs its loop body
SpecRandom == InitAny /\ [][NextRandom]_vars /\ WF_vars(RandomIter)

----------------------------------------------------------------------------
(* The knowledge base as add_knowledge leaves it, checked under Spec *)

Conclusive(s) ==
    s.count = 0 \/ Cardinality(s.cells) = s.count \/ s.cells = {}

\* C14: when add_knowledge returns, no statement has count 0, as many
\* cells as its count, or no cells.
C14_PurgeExhaustive ==
    call.op = "add_knowledge" =>
        \A i \in 1 .. Len(knowledge) : ~Conclusive(knowledge[i])

\* C15: when add_knowledge returns, no statement holds a cell that is in
\* safes or in mines.
C15_NoKnownCellInStatements ==
    call.op = "add_knowledge" =>
        \A i \in 1 .. Len(knowledge) :
            knowledge[i].cells \cap (safes \cup mines) = {}

\* C16: when add_knowledge returns, one more propagation sweep (mark the
\* known mines in each statement, then take known_mines and known_safes)
\* adds no cell to mines or safes.
C16_PropagationFixpoint ==
    call.op = "add_knowledge" =>
        \A i \in 1 .. Len(knowledge) :
            LET s == MarkMines(knowledge[i], mines)
            IN  /\ IterOf(known_mines(s)) \subseteq mines
                /\ IterOf(known_safes(s)) \subseteq safes

\* the statement add_knowledge builds for the cell of the last call
BuiltStatement ==
    LET st1 == AI_mark_safe([pre EXCEPT !.moves_made = @ \cup {call.cell}], call.cell)
        nr == check_neighbors(st1, call.cell, call.count)
    IN  Sentence(nr.cells, nr.count)

Copies(kn, s) == Cardinality({ i \in 1 .. Len(kn) : kn[i] = s })

\* C17: add_knowledge on a cell that is already in moves_made leaves no more
\* statements equal to the statement of that cell than there were before.
C17_NoDuplicateOnReobserve ==
    (call.op = "add_knowledge" /\ call.cell \in pre.moves_made)
        => Copies(knowledge, BuiltStatement) <= Copies(pre.knowledge, BuiltStatement)

\* the knowledge base once the propagation loop has done its first k rounds
RECURSIVE SweepTo(_, _, _, _)
SweepTo(st, i, k, cell) ==
    IF i > k THEN st
    ELSE SweepTo(SweepOne(st, i, cell), i + 1, k, cell)

AllInRange(kn) == \A i \in 1 .. Len(kn) : InRange(kn[i])

\* every sentence in range while "for mine in self.mines: sen.mark_mine(mine)"
\* runs on sentence i of st, whatever the order the mines come in
InRangeWhileMarking(st, i, cell) ==
    LET s1 == Sentence_mark_safe(st.knowledge[i], cell)
        mines1 == st.mines \cup IterOf(known_mines(s1))
    IN  \A ms \in SUBSET mines1 : InRange(MarkMines(s1, ms))

\* C18: with the sound driver every statement satisfies
\* 0 <= count <= |cells|, in every state and between the steps of a call:
\* after the append, after each round of the propagation loop and inside
\* it, after the purge and after the subset loop.
C18_StatementsInRange ==
    /\ AllInRange(knowledge)
    /\ call.op = "add_knowledge" =>
          LET a == AfterAppend(pre, call.cell, call.count)
          IN  /\ AllInRange(a.knowledge)
              /\ \A k \in 1 .. Len(a.knowledge) :
                    /\ InRangeWhileMarking(SweepTo(a, 1, k - 1, call.cell), k, call.cell)
                    /\ AllInRange(SweepTo(a, 1, k, call.cell).knowledge)
              /\ AllInRange(AtSubsetStart)

\* a call built its statement with a count reduced by a known mine, beside
\* other statements
C18_Witness ==
    /\ call.op = "add_knowledge"
    /\ MinesBefore # {}
    /\ UnknownBefore # {}
    /\ Len(knowledge) >= 2

\* the statements of the knowledge base when the last call started, with
\* the cell of the call taken out of each (self.mark_safe(cell))
MarkedBefore ==
    [i \in 1 .. Len(pre.knowledge) |->
        [cells |-> pre.knowledge[i].cells \ {call.cell},
         count |-> pre.knowledge[i].count]]

AtPurgeStart == AfterSweep(pre, call.cell, call.count).knowledge

\* C20: add_knowledge, whatever its arguments, does not add the cell it is
\* called with to mines; the purge loop meets no statement with as many
\* cells as its count and a count other than 0, so its mines.add(cell) is
\* never executed.
C20_RevealedCellNeverMine ==
    call.op = "add_knowledge" =>
        /\ call.cell \notin pre.mines => call.cell \notin mines
        /\ \A i \in 1 .. Len(AtPurgeStart) :
              ~(/\ Cardinality(AtPurgeStart[i].cells) = AtPurgeStart[i].count
                /\ AtPurgeStart[i].count # 0)

\* a call whose sweep found a statement with as many cells as its count,
\* moved them to mines and left the cell of the call out of mines
C20_Witness ==
    /\ call.op = "add_knowledge"
    /\ call.cell \notin mines
    /\ \E i \in 1 .. Len(AfterAppend(pre, call.cell, call.count).knowledge) :
          LET s == AfterAppend(pre, call.cell, call.count).knowledge[i]
          IN  Cardinality(s.cells) = s.count /\ s.count # 0
    /\ mines # pre.mines

====
